---- MODULE Spec2Model ----
(***************************************************************************)
(* Express error-handling demo: the router of routes/index.js, the helpers *)
(* of helpers/index.js and the middleware stack of app.js (logger, router, *)
(* 404 catch-all, error handler).                                          *)
(*                                                                         *)
(* One synchronous JavaScript frame (a layer of the middleware stack, or   *)
(* one promise reaction run from the microtask queue) is one step.  Frames *)
(* of different requests interleave.                                       *)
(***************************************************************************)
EXTENDS Integers, Sequences, FiniteSets, TLC

\* Number of requests the server handles in one behaviour.
MaxRequests == 2

Requests == 1..MaxRequests

\* Values of app.get('env'): the ones the test suite sets.
Envs == {"test", "not_test"}

\* The ten GET routes of routes/index.js.
DefinedPaths ==
  {"/error", "/error/return", "/error/throw", "/error/promise",
   "/error/nested-promise/return", "/error/nested-promise/throw",
   "/error/expected", "/error/middleware", "/error/async-await",
   "/error/callback"}

\* Paths no route matches.
UnmatchedPaths == {"/missing"}

Paths == DefinedPaths \cup UnmatchedPaths

NoPath == ""

(***************************************************************************)
(* JavaScript values.                                                      *)
(***************************************************************************)

\* new Error(message): message and stack are own properties, name is read
\* through the prototype; there is no status property.
NewError(message) ==
  [message |-> message, name |-> "Error",
   stack |-> "Error: " \o message \o " at <frames>"]

\* The TypeError the engine raises on reading a property of undefined.
NewTypeError(message) ==
  [message |-> message, name |-> "TypeError",
   stack |-> "TypeError: " \o message \o " at <frames>"]

\* error.status = code
SetStatus(error, code) ==
  [k \in DOMAIN error \cup {"status"} |->
     IF k = "status" THEN code ELSE error[k]]

\* The value undefined and a string, where a value of any type can stand.
Undefined == [type |-> "undefined"]
String(chars) == [type |-> "string", value |-> chars]

\* Completion of a synchronous call: it returns a value or throws one.
Return(value) == [type |-> "return", value |-> value]
Throw(value) == [type |-> "throw", value |-> value]

\* A promise with the reactions chained on it by .then and .catch.
Rejected(value) == [state |-> "rejected", value |-> value, reactions |-> <<>>]

\* promise.then(fn)
Then(promise, fn) ==
  [promise EXCEPT !.reactions = Append(@, [on |-> "fulfilled", fn |-> fn])]

\* promise.catch(fn)
Catch(promise, fn) ==
  [promise EXCEPT !.reactions = Append(@, [on |-> "rejected", fn |-> fn])]

(***************************************************************************)
(* Effects of one frame on its request: responses sent with res.json,      *)
(* calls of next (<<>> is next(), <<e>> is next(e)), a promise left        *)
(* pending and an exception that escapes the frame.                        *)
(***************************************************************************)
NoEffect == [json |-> <<>>, next |-> <<>>, promise |-> <<>>, throw |-> <<>>]

\* res.status(200).json({ title: 'FrontEnd Guild' })
Ok200 == [status |-> 200, body |-> [title |-> "FrontEnd Guild"]]

SendOk == [NoEffect EXCEPT !.json = <<Ok200>>]
CallNext(args) == [NoEffect EXCEPT !.next = <<args>>]
Uncaught(value) == [NoEffect EXCEPT !.throw = <<value>>]
Pending(promise) == [NoEffect EXCEPT !.promise = <<promise>>]

(***************************************************************************)
(* helpers/index.js                                                        *)
(***************************************************************************)
\* throwError with return in place of throw.
throwErrorReturns == Return(NewError("regular function error"))

throwError == Throw(NewError("regular function error"))

\* returnError with throw in place of return.
returnErrorThrows == Throw(NewError("regular function error"))

returnError == Return(NewError("regular function error"))

promiseReject == Rejected(SetStatus(NewError("Promise Failed"), 503))

promiseConsumerReturn(promiseFunc) ==
  Catch(Then(promiseFunc, "identity"), "returnErr")

\* promiseConsumerThrow whose catch returns the error.
promiseConsumerThrowSwallows(promiseFunc) ==
  Catch(Then(promiseFunc, "identity"), "returnErr")

promiseConsumerThrow(promiseFunc) ==
  Catch(Then(promiseFunc, "identity"), "throwErr")

expectedError ==
  LET valid == FALSE IN
  IF ~valid THEN Throw(SetStatus(NewError("expected error"), 400))
  ELSE Return(Undefined)

\* middlewareFn going on with next() after next(error).
middlewareFnAlsoContinues ==
  [NoEffect EXCEPT
     !.next = <<<<SetStatus(NewError("error in middleware"), 401)>>, <<>>>>]

middlewareFn == CallNext(<<SetStatus(NewError("error in middleware"), 401)>>)

\* asyncAwaitError without the await: the rejection is dropped and the
\* function returns 'result'.
asyncAwaitErrorNoAwait ==
  [state |-> "fulfilled", value |-> String("result"), reactions |-> <<>>]

\* The promise of the async function: the await of the rejected promise
\* rejects it, otherwise the function goes on to return 'result'.
asyncAwaitError ==
  Then(Rejected(SetStatus(NewError("async await error"), 503)), "returnResult")

\* The calls nodeCbError makes of cb, in order, with their arguments.
nodeCbErrorTwice ==
  LET call == [err |-> <<SetStatus(NewError("callback error"), 503)>>,
               result |-> "null"]
  IN <<call, call>>

nodeCbError ==
  <<[err |-> <<SetStatus(NewError("callback error"), 503)>>,
     result |-> "null"]>>

(***************************************************************************)
(* routes/index.js: the effects of each handler's synchronous frame.       *)
(***************************************************************************)

\* The request object: app.js installs no body parser, so req has no body.
Request(url) == [method |-> "GET", url |-> url]

\* Both(a, b): the effects of running a and then b in the same frame.
Both(a, b) ==
  [json |-> a.json \o b.json, next |-> a.next \o b.next,
   promise |-> a.promise \o b.promise, throw |-> a.throw \o b.throw]

\* const name = req.body.profile.name; then the 200 response.
GetError(req) ==
  IF "body" \notin DOMAIN req
  THEN Uncaught(NewTypeError("Cannot read property 'profile' of undefined"))
  ELSE IF "profile" \notin DOMAIN req.body
  THEN Uncaught(NewTypeError("Cannot read property 'name' of undefined"))
  ELSE SendOk

\* The route of /error/return calling next() after its response.
GetErrorReturnThenNext ==
  LET c == returnError IN
  IF c.type = "throw" THEN Uncaught(c.value)
  ELSE Both(SendOk, CallNext(<<>>))

GetErrorReturn ==
  LET c == returnError IN
  IF c.type = "throw" THEN Uncaught(c.value) ELSE SendOk

GetErrorThrow ==
  LET c == throwError IN
  IF c.type = "throw" THEN Uncaught(c.value) ELSE SendOk

\* The route of /error/promise without .catch(next).
GetErrorPromiseNoCatch == Pending(Then(promiseReject, "send200"))

GetErrorPromise ==
  Pending(Catch(Then(promiseReject, "send200"), "next"))

GetErrorNestedPromiseReturn ==
  Pending(Catch(Then(promiseConsumerReturn(promiseReject), "send200"), "next"))

GetErrorNestedPromiseThrow ==
  Pending(Catch(Then(promiseConsumerThrow(promiseReject), "send200"), "next"))

\* try { helpers.expectedError() } catch (e) { next(e); } res...json()
GetErrorExpectedNoReturn ==
  LET c == expectedError IN
  IF c.type = "throw" THEN Both(CallNext(<<c.value>>), SendOk) ELSE SendOk

\* try { helpers.expectedError() } catch (e) { return next(e); } res...json()
GetErrorExpected ==
  LET c == expectedError IN
  IF c.type = "throw" THEN CallNext(<<c.value>>) ELSE SendOk

\* The terminal handler of /error/middleware, after helpers.middlewareFn.
GetErrorMiddleware == SendOk

GetErrorAsyncAwait ==
  Pending(Catch(Then(asyncAwaitError, "send200"), "next"))

\* (err, result) => { res...json() }: err is not looked at.
GetErrorCallbackCbUnchecked(err, result) == SendOk

\* (err, result) => { if (err) next(err); res...json() }: no return.
GetErrorCallbackCbNoReturn(err, result) ==
  IF err # <<>> THEN Both(CallNext(err), SendOk) ELSE SendOk

\* (err, result) => { if (err) return next(err); res...json() }
GetErrorCallbackCb(err, result) ==
  IF err # <<>> THEN CallNext(err) ELSE SendOk

\* The frame of /error/callback: cb runs inside each call nodeCbError makes.
RECURSIVE CallbackEffects(_)
CallbackEffects(calls) ==
  IF calls = <<>> THEN NoEffect
  ELSE Both(GetErrorCallbackCb(Head(calls).err, Head(calls).result),
            CallbackEffects(Tail(calls)))

GetErrorCallback == CallbackEffects(nodeCbError)

\* The handlers router.get registers for a path, in order.
RouteStack(url) ==
  IF url = "/error/middleware" THEN <<"middlewareFn", url>>
  ELSE IF url \in DefinedPaths THEN <<url>>
  ELSE <<>>

\* The effects of the route handler named h on request req.
RouteHandler(h, req) ==
  CASE h = "/error" -> GetError(req)
    [] h = "/error/return" -> GetErrorReturn
    [] h = "/error/throw" -> GetErrorThrow
    [] h = "/error/promise" -> GetErrorPromise
    [] h = "/error/nested-promise/return" -> GetErrorNestedPromiseReturn
    [] h = "/error/nested-promise/throw" -> GetErrorNestedPromiseThrow
    [] h = "/error/expected" -> GetErrorExpected
    [] h = "middlewareFn" -> middlewareFn
    [] h = "/error/middleware" -> GetErrorMiddleware
    [] h = "/error/async-await" -> GetErrorAsyncAwait
    [] h = "/error/callback" -> GetErrorCallback

(***************************************************************************)
(* Promise reactions: the functions passed to .then and .catch.            *)
(***************************************************************************)
Settled(state, value, fx) == [state |-> state, value |-> value, fx |-> fx]

\* The reactions with a re-throwing catch that writes to the error first:
\* (err) => { err.message = 'consumer: ' + err.message; throw err; }
RunReactionWritingError(fn, value) ==
  CASE fn = "identity" -> Settled("fulfilled", value, NoEffect)
    [] fn = "returnErr" -> Settled("fulfilled", value, NoEffect)
    [] fn = "throwErr" ->
         Settled("rejected",
                 [value EXCEPT !.message = "consumer: " \o @], NoEffect)
    [] fn = "returnResult" -> Settled("fulfilled", String("result"), NoEffect)
    [] fn = "send200" -> Settled("fulfilled", Undefined, SendOk)
    [] fn = "next" -> Settled("fulfilled", Undefined, CallNext(<<value>>))

RunReaction(fn, value) ==
  CASE fn = "identity" -> Settled("fulfilled", value, NoEffect)
    [] fn = "returnErr" -> Settled("fulfilled", value, NoEffect)
    [] fn = "throwErr" -> Settled("rejected", value, NoEffect)
    [] fn = "returnResult" -> Settled("fulfilled", String("result"), NoEffect)
    [] fn = "send200" -> Settled("fulfilled", Undefined, SendOk)
    [] fn = "next" -> Settled("fulfilled", Undefined, CallNext(<<value>>))

\* One microtask: the first reaction of the chain runs if it is registered
\* for the promise's state, otherwise the state passes through unchanged.
React(promise) ==
  LET reaction == Head(promise.reactions)
      rest == Tail(promise.reactions)
  IN IF reaction.on = promise.state
     THEN LET s == RunReaction(reaction.fn, promise.value)
          IN [promise |-> [state |-> s.state, value |-> s.value,
                           reactions |-> rest],
              fx |-> s.fx]
     ELSE [promise |-> [promise EXCEPT !.reactions = rest], fx |-> NoEffect]

(***************************************************************************)
(* app.js                                                                  *)
(***************************************************************************)

\* app.use(logger('dev')): morgan writes to stdout and calls next().
Logger == CallNext(<<>>)

\* The catch-all without err.status = 404.
Catch404NoStatus == CallNext(<<NewError("Not Found")>>)

\* catch 404 and forward to error handler
Catch404 == CallNext(<<SetStatus(NewError("Not Found"), 404)>>)

\* err.statusCode || 500: the status read from a property no error has.
StatusCodeOr500(err) ==
  IF "statusCode" \in DOMAIN err /\ err.statusCode # 0
  THEN err.statusCode ELSE 500

\* err.status || 500
StatusOr500(err) ==
  IF "status" \in DOMAIN err /\ err.status # 0 THEN err.status ELSE 500

\* res.json(obj): JSON.stringify leaves out the properties that are
\* undefined; message and name are strings when present.
Json(obj) == [k \in {j \in DOMAIN obj : obj[j] # "undefined"} |-> obj[k]]

\* Reading a property the object may lack.
Get(obj, key) == IF key \in DOMAIN obj THEN obj[key] ELSE "undefined"

\* The error handler sending the stack along with message and name.
ErrorResponseWithStack(err) ==
  [status |-> StatusOr500(err),
   body |-> [error |-> Json([message |-> Get(err, "message"),
                             name |-> Get(err, "name"),
                             stack |-> Get(err, "stack")])]]

\* The response of the error handler for err.
ErrorResponse(err) ==
  [status |-> StatusOr500(err),
   body |-> [error |-> Json([message |-> Get(err, "message"),
                             name |-> Get(err, "name")])]]

\* console.log(err) whatever the mode.
LoggedAlways(mode, err) == <<err>>

\* if (app.get('env') !== 'test') console.log(err)
Logged(mode, err) == IF mode # "test" THEN <<err>> ELSE <<>>

\* Layer.handle_request: an exception that escapes a handler is passed to
\* next.
HandleRequest(fx) ==
  [fx EXCEPT !.next = @ \o [i \in 1..Len(fx.throw) |-> <<fx.throw[i]>>],
             !.throw = <<>>]

\* The non-error layers a request to url passes through.
Stack(url) == <<"logger">> \o RouteStack(url) \o <<"catch404">>

(***************************************************************************)
(* State.                                                                  *)
(***************************************************************************)
VARIABLES
  env,      \* app.get('env')
  path,     \* path[r]: the url of request r, NoPath before it arrives
  idx,      \* idx[r]: position in Stack(path[r]) of the next layer to run
  go,       \* go[r]: calls of next() not yet taken up by the next layer
  promise,  \* promise[r]: <<p>> while a promise chain of r is pending
  signals,  \* signals[r]: the errors passed to next(err), in order
  thrown,   \* thrown[r]: the exceptions that escaped a handler of r
  handled,  \* handled[r]: the invocations of the error handler for r
  res,      \* res[r]: the responses sent for r, in order
  locals,   \* locals[r]: <<res.locals.error>> once set
  log,      \* the console.log calls, in order
  ran       \* ran[r]: the layers that ran for r, in order

vars == <<env, path, idx, go, promise, signals, thrown, handled, res,
          locals, log, ran>>

Init ==
  /\ env \in Envs
  /\ path = [r \in Requests |-> NoPath]
  /\ idx = [r \in Requests |-> 1]
  /\ go = [r \in Requests |-> 0]
  /\ promise = [r \in Requests |-> <<>>]
  /\ signals = [r \in Requests |-> <<>>]
  /\ thrown = [r \in Requests |-> <<>>]
  /\ handled = [r \in Requests |-> <<>>]
  /\ res = [r \in Requests |-> <<>>]
  /\ locals = [r \in Requests |-> <<>>]
  /\ log = <<>>
  /\ ran = [r \in Requests |-> <<>>]

\* The arguments of the next(err) calls among calls.
Errors(calls) ==
  LET withErr == SelectSeq(calls, LAMBDA a : a # <<>>)
  IN [i \in 1..Len(withErr) |-> withErr[i][1]]

\* The number of next() calls among calls.
Continues(calls) == Len(SelectSeq(calls, LAMBDA a : a = <<>>))

\* The effects fx of a frame of request r take place.
Apply(r, fx) ==
  /\ res' = [res EXCEPT ![r] = @ \o fx.json]
  /\ signals' = [signals EXCEPT ![r] = @ \o Errors(fx.next)]
  /\ thrown' = [thrown EXCEPT ![r] = @ \o fx.throw]

\* app.set('env', mode), as the test suite does.
SetEnv(mode) ==
  /\ mode # env
  /\ env' = mode
  /\ UNCHANGED <<path, idx, go, promise, signals, thrown, handled, res,
                 locals, log, ran>>

\* A GET request for url arrives and app.handle starts the stack.  The
\* requests are numbered in the order of their arrival.
Dispatch(r, url) ==
  /\ path[r] = NoPath
  /\ \A q \in Requests : q < r => path[q] # NoPath
  /\ path' = [path EXCEPT ![r] = url]
  /\ go' = [go EXCEPT ![r] = 1]
  /\ UNCHANGED <<env, idx, promise, signals, thrown, handled, res, locals,
                 log, ran>>

\* The layer at idx[r] runs in answer to a call of next().
RunLayer(r, name, fx) ==
  /\ path[r] # NoPath
  /\ go[r] > 0
  /\ idx[r] <= Len(Stack(path[r]))
  /\ Stack(path[r])[idx[r]] = name
  /\ idx' = [idx EXCEPT ![r] = @ + 1]
  /\ go' = [go EXCEPT ![r] = @ - 1 + Continues(fx.next)]
  /\ promise' = [promise EXCEPT ![r] = @ \o fx.promise]
  /\ ran' = [ran EXCEPT ![r] = Append(@, name)]
  /\ Apply(r, [HandleRequest(fx) EXCEPT !.throw = fx.throw])
  /\ UNCHANGED <<env, path, handled, locals, log>>

LoggerLayer(r) == RunLayer(r, "logger", Logger)

RouteLayer(r) ==
  \E h \in DefinedPaths \cup {"middlewareFn"} :
    RunLayer(r, h, RouteHandler(h, Request(path[r])))

Catch404Layer(r) == RunLayer(r, "catch404", Catch404)

\* A microtask: the next reaction of r's pending promise chain.
PromiseReaction(r) ==
  /\ promise[r] # <<>>
  /\ LET p == promise[r][1] IN
     /\ p.reactions # <<>>
     /\ LET step == React(p) IN
        /\ promise' = [promise EXCEPT ![r] =
                         IF step.promise.reactions = <<>> THEN <<>>
                         ELSE <<step.promise>>]
        /\ go' = [go EXCEPT ![r] = @ + Continues(step.fx.next)]
        /\ Apply(r, step.fx)
  /\ UNCHANGED <<env, path, idx, handled, locals, log, ran>>

\* The error handler reading the error from a slot shared by all requests:
\* it answers r with the pending error of the lowest-numbered request.
ErrorHandlerSharedError(r) ==
  /\ Len(handled[r]) < Len(signals[r])
  /\ LET waiting == {q \in Requests : Len(handled[q]) < Len(signals[q])}
         first == CHOOSE q \in waiting : \A p \in waiting : q <= p
         err == signals[first][Len(handled[first]) + 1]
         response == ErrorResponse(err)
     IN /\ log' = log \o [i \in 1..Len(Logged(env, err)) |->
                            [req |-> r, err |-> Logged(env, err)[i]]]
        /\ locals' = [locals EXCEPT ![r] = <<err>>]
        /\ res' = [res EXCEPT ![r] = Append(@, response)]
        /\ handled' = [handled EXCEPT ![r] =
                         Append(@, [err |-> err, res |-> response,
                                    env |-> env])]
  /\ ran' = [ran EXCEPT ![r] = Append(@, "errorHandler")]
  /\ UNCHANGED <<env, path, idx, go, promise, signals, thrown>>

\* The error handler with a body that depends on the mode: outside 'test'
\* it sends the stack too.
ErrorHandlerBodyByMode(r) ==
  /\ Len(handled[r]) < Len(signals[r])
  /\ LET err == signals[r][Len(handled[r]) + 1]
         response == IF env # "test" THEN ErrorResponseWithStack(err)
                     ELSE ErrorResponse(err)
     IN /\ log' = log \o [i \in 1..Len(Logged(env, err)) |->
                            [req |-> r, err |-> Logged(env, err)[i]]]
        /\ locals' = [locals EXCEPT ![r] = <<err>>]
        /\ res' = [res EXCEPT ![r] = Append(@, response)]
        /\ handled' = [handled EXCEPT ![r] =
                         Append(@, [err |-> err, res |-> response,
                                    env |-> env])]
  /\ ran' = [ran EXCEPT ![r] = Append(@, "errorHandler")]
  /\ UNCHANGED <<env, path, idx, go, promise, signals, thrown>>

\* The error handler (the 4-argument middleware) runs for the oldest error
\* passed to next that it has not seen.
ErrorHandler(r) ==
  /\ Len(handled[r]) < Len(signals[r])
  /\ LET err == signals[r][Len(handled[r]) + 1]
         response == ErrorResponse(err)
     IN /\ log' = log \o [i \in 1..Len(Logged(env, err)) |->
                            [req |-> r, err |-> Logged(env, err)[i]]]
        /\ locals' = [locals EXCEPT ![r] = <<err>>]
        /\ res' = [res EXCEPT ![r] = Append(@, response)]
        /\ handled' = [handled EXCEPT ![r] =
                         Append(@, [err |-> err, res |-> response,
                                    env |-> env])]
  /\ ran' = [ran EXCEPT ![r] = Append(@, "errorHandler")]
  /\ UNCHANGED <<env, path, idx, go, promise, signals, thrown>>

Next ==
  \/ \E mode \in Envs : SetEnv(mode)
  \/ \E r \in Requests, url \in Paths : Dispatch(r, url)
  \/ \E r \in Requests : LoggerLayer(r)
  \/ \E r \in Requests : RouteLayer(r)
  \/ \E r \in Requests : Catch404Layer(r)
  \/ \E r \in Requests : PromiseReaction(r)
  \/ \E r \in Requests : ErrorHandler(r)

Spec == Init /\ [][Next]_vars

\* The frames of dispatched requests: layers and microtasks.
Progress ==
  \E r \in Requests :
    \/ LoggerLayer(r) \/ RouteLayer(r) \/ Catch404Layer(r)
    \/ PromiseReaction(r) \/ ErrorHandler(r)

\* No frame of any request is left to run.
EventLoopIdle ==
  \A r \in Requests :
    \/ path[r] = NoPath
    \/ go[r] = 0 /\ promise[r] = <<>> /\ Len(handled[r]) = Len(signals[r])

\* Node's scheduling: the synchronous frames and the microtasks started by
\* one event run to completion before the event loop takes the next event
\* (the arrival of a request, or the test suite's app.set).
EventLoopNext ==
  \/ EventLoopIdle /\ \E mode \in Envs : SetEnv(mode)
  \/ EventLoopIdle /\ \E r \in Requests, url \in Paths : Dispatch(r, url)
  \/ \E r \in Requests : LoggerLayer(r)
  \/ \E r \in Requests : RouteLayer(r)
  \/ \E r \in Requests : Catch404Layer(r)
  \/ \E r \in Requests : PromiseReaction(r)
  \/ \E r \in Requests : ErrorHandler(r)

\* The event loop runs every frame that is ready.
FairSpec == Init /\ [][EventLoopNext]_vars /\ WF_vars(Progress)

TypeOK ==
  /\ env \in Envs
  /\ \A r \in Requests :
       /\ path[r] \in Paths \cup {NoPath}
       /\ idx[r] \in 1..4
       /\ go[r] \in 0..1
       /\ Len(promise[r]) <= 1

(***************************************************************************)
(* Properties.                                                             *)
(***************************************************************************)

\* Request r has arrived and no frame of it is left to run.
Quiescent(r) ==
  /\ path[r] # NoPath
  /\ go[r] = 0
  /\ promise[r] = <<>>
  /\ Len(handled[r]) = Len(signals[r])

\* The state of request r in the per-request state machine.
Phase(r) ==
  IF path[r] = NoPath THEN "Idle"
  ELSE IF res[r] # <<>> THEN "Responded"
  ELSE IF Len(handled[r]) < Len(signals[r]) THEN "Failed"
  ELSE IF idx[r] = 1 THEN "Dispatched"
  ELSE "Running"

\* What a client or a later layer can observe of request r.
Observable(r) ==
  <<path[r], idx[r], go[r], signals[r], thrown[r], handled[r], res[r],
    locals[r], ran[r]>>

\* The invocations of the error handler, over all requests.
Invocations ==
  UNION {{handled[r][i] : i \in DOMAIN handled[r]} : r \in Requests}

\* C1: the status of the response the error handler produces for an error
\* is the error's status when it carries one, and 500 when it carries none.
C1_StatusIsErrorStatusOr500 ==
  \A r \in Requests : \A i \in DOMAIN handled[r] :
    LET h == handled[r][i] IN
    /\ h.res.status = IF "status" \in DOMAIN h.err THEN h.err.status ELSE 500
    /\ \E j \in DOMAIN res[r] : res[r][j] = h.res

\* The error handler has answered an error with a status and one without.
C1_Witness ==
  /\ \E h \in Invocations : "status" \in DOMAIN h.err /\ h.res.status = 503
  /\ \E h \in Invocations : "status" \notin DOMAIN h.err /\ h.res.status = 500

PhaseSteps ==
  {<<"Idle", "Dispatched">>, <<"Dispatched", "Running">>,
   <<"Running", "Running">>, <<"Running", "Failed">>,
   <<"Running", "Responded">>, <<"Failed", "Responded">>,
   <<"Idle", "Idle">>, <<"Dispatched", "Dispatched">>,
   <<"Failed", "Failed">>, <<"Responded", "Responded">>}

\* C3: every request gets exactly one response: it goes Dispatched,
\* Running, then Succeeded (the 200 response) or Failed, then Responded;
\* Responded is terminal and no second response is sent.
C3_ExactlyOneResponse ==
  /\ [](\A r \in Requests :
          /\ Len(res[r]) <= 1
          /\ Quiescent(r) => Len(res[r]) = 1)
  /\ [][\A r \in Requests :
          /\ <<Phase(r), Phase(r)'>> \in PhaseSteps
          /\ Phase(r) = "Responded" => Observable(r)' = Observable(r)]_vars

\* Two requests have been answered, one by a handler's 200 response and
\* one by the error handler.
C3_Witness ==
  \E r1, r2 \in Requests :
    /\ Quiescent(r1) /\ res[r1] = <<Ok200>> /\ handled[r1] = <<>>
    /\ Quiescent(r2) /\ Len(handled[r2]) = 1
    /\ res[r2] = <<handled[r2][1].res>>

\* The responses of request r that are not the handlers' 200 response.
ErrorResponses(r) == SelectSeq(res[r], LAMBDA x : x # Ok200)

\* C4: when a handler signals an error (an exception escaping it, or
\* next(error), also from a completion callback), the error handler is
\* invoked for the request exactly once, and only it produces the error
\* response.
C4_ErrorHandlerInvokedExactlyOnce ==
  /\ [](\A r \in Requests :
          /\ Len(handled[r]) <= 1
          /\ \A i \in DOMAIN thrown[r] :
               \E j \in DOMAIN signals[r] : signals[r][j] = thrown[r][i]
          /\ ErrorResponses(r) =
               [i \in DOMAIN handled[r] |-> handled[r][i].res])
  /\ \A r \in Requests :
       (signals[r] # <<>> \/ thrown[r] # <<>>) ~> (Len(handled[r]) = 1)

\* An escaped exception, a next(error) of a route and a next(error) of a
\* completion callback have each been handled once.
C4_Witness ==
  \E r1, r2 \in Requests :
    /\ thrown[r1] # <<>> /\ Len(handled[r1]) = 1
    /\ handled[r1][1].err = thrown[r1][1]
    /\ path[r2] \in {"/error/callback", "/error/expected"}
    /\ Len(handled[r2]) = 1 /\ handled[r2][1].err = signals[r2][1]

\* The response the error handler sends for an error with this status,
\* message and name.
ErrorJson(status, message, name) ==
  [status |-> status, body |-> [error |-> [message |-> message,
                                            name |-> name]]]

\* The 200 response has been sent for request r.
SentOk(r) == \E i \in DOMAIN res[r] : res[r][i] = Ok200

\* C5: on GET /error/return the error is returned, not signalled: the
\* outcome is Succeeded, the status is 200 and never 500, and the error
\* handler is not invoked.
C5_ReturnedErrorSucceeds ==
  \A r \in Requests :
    path[r] = "/error/return" =>
      /\ \A i \in DOMAIN res[r] : res[r][i].status = 200
      /\ signals[r] = <<>> /\ handled[r] = <<>>
      /\ "errorHandler" \notin {ran[r][i] : i \in DOMAIN ran[r]}
      /\ Quiescent(r) => res[r] = <<Ok200>>

\* A request for /error/return has been answered.
C5_Witness ==
  \E r \in Requests :
    /\ path[r] = "/error/return" /\ Quiescent(r)
    /\ ran[r] = <<"logger", "/error/return">> /\ res[r] = <<Ok200>>

\* C6: for the same rejecting promiseReject, the wrapper that returns the
\* caught error gives 200 on /error/nested-promise/return, and the wrapper
\* that re-throws it gives 503 with message "Promise Failed" on
\* /error/nested-promise/throw: status and message survive the re-throw.
C6_NestedPromiseReturnVersusThrow ==
  \A r \in Requests :
    /\ path[r] = "/error/nested-promise/return" =>
         /\ \A i \in DOMAIN res[r] : res[r][i].status = 200
         /\ handled[r] = <<>>
         /\ Quiescent(r) => res[r] = <<Ok200>>
    /\ path[r] = "/error/nested-promise/throw" =>
         /\ ~SentOk(r)
         /\ \A i \in DOMAIN signals[r] : signals[r][i] = promiseReject.value
         /\ Quiescent(r) =>
              res[r] = <<ErrorJson(503, "Promise Failed", "Error")>>

\* Both nested-promise routes have been answered.
C6_Witness ==
  \E r1, r2 \in Requests :
    /\ path[r1] = "/error/nested-promise/return" /\ Quiescent(r1)
    /\ res[r1] = <<Ok200>>
    /\ path[r2] = "/error/nested-promise/throw" /\ Quiescent(r2)
    /\ Len(res[r2]) = 1 /\ res[r2][1].status = 503

\* C7: on GET /error/callback the callback gets a populated error, forwards
\* it with next and never runs the success branch: the response is 503
\* with message "callback error" and no 200 is sent.
C7_CallbackErrorForwarded ==
  \A r \in Requests :
    path[r] = "/error/callback" =>
      /\ ~SentOk(r)
      /\ "/error/callback" \in {ran[r][i] : i \in DOMAIN ran[r]} =>
           /\ Len(signals[r]) = 1
           /\ \A i \in DOMAIN nodeCbError : nodeCbError[i].err = signals[r]
      /\ Quiescent(r) =>
           res[r] = <<ErrorJson(503, "callback error", "Error")>>

\* A request for /error/callback has been answered by the error handler.
C7_Witness ==
  \E r \in Requests :
    /\ path[r] = "/error/callback" /\ Quiescent(r)
    /\ Len(handled[r]) = 1 /\ Len(res[r]) = 1 /\ res[r][1].status = 503

\* C8: a rejection forwarded with .catch(next) fails the request with the
\* error's own status and message: /error/promise gives 503 "Promise
\* Failed", /error/async-await gives 503 "async await error", and the 200
\* response is sent in neither case.
C8_RejectionForwardedVerbatim ==
  \A r \in Requests :
    /\ path[r] = "/error/promise" =>
         /\ ~SentOk(r)
         /\ Quiescent(r) =>
              /\ res[r] = <<ErrorJson(503, "Promise Failed", "Error")>>
              /\ signals[r] = <<promiseReject.value>>
    /\ path[r] = "/error/async-await" =>
         /\ ~SentOk(r)
         /\ Quiescent(r) =>
              /\ res[r] = <<ErrorJson(503, "async await error", "Error")>>
              /\ signals[r] = <<asyncAwaitError.value>>

\* Both routes have been answered by the error handler.
C8_Witness ==
  \E r1, r2 \in Requests :
    /\ path[r1] = "/error/promise" /\ Quiescent(r1) /\ Len(handled[r1]) = 1
    /\ res[r1][1].status = 503
    /\ path[r2] = "/error/async-await" /\ Quiescent(r2)
    /\ Len(handled[r2]) = 1 /\ res[r2][1].status = 503

\* C9: on GET /error/throw the exception thrown inside the handler is
\* captured and routed to the error handler: the status is 500 and the 200
\* response after the throwing call is never sent.
C9_ThrownErrorGives500 ==
  \A r \in Requests :
    path[r] = "/error/throw" =>
      /\ ~SentOk(r)
      /\ "/error/throw" \in {ran[r][i] : i \in DOMAIN ran[r]} =>
           /\ thrown[r] = <<throwError.value>>
           /\ signals[r] = thrown[r]
           /\ "status" \notin DOMAIN signals[r][1]
      /\ Quiescent(r) =>
           res[r] = <<ErrorJson(500, "regular function error", "Error")>>

\* A request for /error/throw has been answered by the error handler.
C9_Witness ==
  \E r \in Requests :
    /\ path[r] = "/error/throw" /\ Quiescent(r)
    /\ ran[r] = <<"logger", "/error/throw", "errorHandler">>
    /\ res[r][1].status = 500

\* C10: on GET /error/expected the route catches the validation error,
\* passes it to next and halts: the response is 400 with message "expected
\* error" and the 200 response after the try/catch is never sent.
C10_ExpectedErrorHaltsAfterNext ==
  \A r \in Requests :
    path[r] = "/error/expected" =>
      /\ ~SentOk(r)
      /\ thrown[r] = <<>>
      /\ "/error/expected" \in {ran[r][i] : i \in DOMAIN ran[r]} =>
           /\ signals[r] = <<expectedError.value>>
           /\ go[r] = 0 /\ promise[r] = <<>>
      /\ Quiescent(r) =>
           res[r] = <<ErrorJson(400, "expected error", "Error")>>

\* A request for /error/expected has been answered by the error handler.
C10_Witness ==
  \E r \in Requests :
    /\ path[r] = "/error/expected" /\ Quiescent(r)
    /\ ran[r] = <<"logger", "/error/expected", "errorHandler">>
    /\ res[r][1].status = 400

\* The layers that ran for request r.
Ran(r) == {ran[r][i] : i \in DOMAIN ran[r]}

\* C11: on GET /error/middleware the stage before the terminal handler
\* calls next(error) with status 401, the terminal handler never runs, and
\* the response is 401 "error in middleware", not the 200 response.
C11_MiddlewareErrorShortCircuits ==
  \A r \in Requests :
    path[r] = "/error/middleware" =>
      /\ ~SentOk(r)
      /\ "/error/middleware" \notin Ran(r)
      /\ "middlewareFn" \in Ran(r) =>
           /\ signals[r] = <<SetStatus(NewError("error in middleware"), 401)>>
           /\ go[r] = 0 /\ idx[r] = 3
      /\ Quiescent(r) =>
           res[r] = <<ErrorJson(401, "error in middleware", "Error")>>

\* A request for /error/middleware has been answered by the error handler
\* right after middlewareFn.
C11_Witness ==
  \E r \in Requests :
    /\ path[r] = "/error/middleware" /\ Quiescent(r)
    /\ ran[r] = <<"logger", "middlewareFn", "errorHandler">>
    /\ res[r][1].status = 401

\* C12: a request that matches no route is turned into a "Not Found" error
\* by the catch-all and answered by the error handler with status 404 and
\* body {error: {message: "Not Found", name: "Error"}}.
C12_UnmatchedGives404 ==
  \A r \in Requests :
    path[r] \in UnmatchedPaths =>
      /\ \A i \in DOMAIN res[r] :
           res[r][i] = ErrorJson(404, "Not Found", "Error")
      /\ \A i \in DOMAIN handled[r] :
           /\ handled[r][i].err.message = "Not Found"
           /\ handled[r][i].res = res[r][i]
      /\ Ran(r) \subseteq {"logger", "catch404", "errorHandler"}
      /\ Quiescent(r) =>
           /\ ran[r] = <<"logger", "catch404", "errorHandler">>
           /\ Len(res[r]) = 1

\* A request for an unmatched path has been answered.
C12_Witness ==
  \E r \in Requests :
    /\ path[r] \in UnmatchedPaths /\ Quiescent(r)
    /\ Len(handled[r]) = 1 /\ res[r][1].status = 404

\* The console.log calls made for request r.
LogOf(r) == SelectSeq(log, LAMBDA entry : entry.req = r)

\* The invocations of the error handler for r in a mode other than test.
HandledLoudly(r) == SelectSeq(handled[r], LAMBDA h : h.env # "test")

\* C13: a request that reaches the error handler is logged with
\* console.log exactly once when the mode is not 'test' and not at all when
\* it is 'test'; a request that succeeds is not logged.
C13_LoggedOnceUnlessTest ==
  \A r \in Requests :
    /\ Len(LogOf(r)) = Len(HandledLoudly(r))
    /\ \A i \in DOMAIN LogOf(r) : LogOf(r)[i].err = HandledLoudly(r)[i].err
    /\ Len(LogOf(r)) <= 1
    /\ handled[r] = <<>> => LogOf(r) = <<>>
    /\ Quiescent(r) /\ signals[r] # <<>> =>
         Len(LogOf(r)) = IF handled[r][1].env = "test" THEN 0 ELSE 1

\* One failed request was handled in mode test and left no log entry,
\* another in a different mode and left one.
C13_Witness ==
  \E r1, r2 \in Requests :
    /\ Len(handled[r1]) = 1 /\ handled[r1][1].env = "test"
    /\ LogOf(r1) = <<>>
    /\ Len(handled[r2]) = 1 /\ handled[r2][1].env # "test"
    /\ Len(LogOf(r2)) = 1

\* C14: the mode gates logging only: two requests for the same path, one
\* answered in mode 'test' and one in another mode, get the same status
\* and the same body.
C14_ResponseIndependentOfMode ==
  \A r1, r2 \in Requests :
    path[r1] = path[r2] /\ Quiescent(r1) /\ Quiescent(r2) =>
      /\ res[r1] = res[r2]
      /\ \A i \in DOMAIN handled[r1] :
           /\ handled[r1][i].res = handled[r2][i].res
           /\ handled[r1][i].err = handled[r2][i].err

\* Two requests for the same path have been answered by the error handler,
\* one in mode 'test' and one in another mode.
C14_Witness ==
  \E r1, r2 \in Requests :
    /\ path[r1] = path[r2] /\ Quiescent(r1) /\ Quiescent(r2)
    /\ Len(handled[r1]) = 1 /\ Len(handled[r2]) = 1
    /\ handled[r1][1].env = "test" /\ handled[r2][1].env # "test"
    /\ Len(res[r1]) = 1 /\ Len(res[r2]) = 1

\* C15: on GET /error the response has status 500 and the nested field
\* error.error of its body is an object with no keys.
C15_ErrorRouteNestedErrorEmpty ==
  \A r \in Requests :
    path[r] = "/error" /\ Quiescent(r) =>
      /\ Len(res[r]) = 1
      /\ res[r][1].status = 500
      /\ "error" \in DOMAIN res[r][1].body
      /\ "error" \in DOMAIN res[r][1].body.error
      /\ DOMAIN res[r][1].body.error.error = {}

\* C16: the error handler is the last stage, so every request that has
\* arrived gets a response: none stays without one once its frames have
\* run, and the pending frames are eventually run.
C16_EveryRequestAnswered ==
  /\ [](\A r \in Requests : Quiescent(r) => res[r] # <<>>)
  /\ \A r \in Requests : (path[r] # NoPath) ~> (res[r] # <<>>)

\* A request whose route waits for a promise and a request for an unmatched
\* path have both been answered.
C16_Witness ==
  \E r1, r2 \in Requests :
    /\ path[r1] \in {"/error/promise", "/error/nested-promise/return",
                     "/error/nested-promise/throw", "/error/async-await"}
    /\ Quiescent(r1) /\ Len(res[r1]) = 1
    /\ path[r2] \in UnmatchedPaths /\ Quiescent(r2) /\ Len(res[r2]) = 1

\* C19: the 404 catch-all runs only for requests no route handled: a
\* request for a defined path never reaches it, whether its handler
\* signals an error or sends 200, so its error is never the "Not Found"
\* error and its status is never 404.
C19_Catch404OnlyForUnmatched ==
  \A r \in Requests :
    /\ path[r] \in DefinedPaths =>
         /\ "catch404" \notin Ran(r)
         /\ \A i \in DOMAIN signals[r] : signals[r][i].message # "Not Found"
         /\ \A i \in DOMAIN res[r] : res[r][i].status # 404
         /\ idx[r] <= Len(RouteStack(path[r])) + 2
    /\ "catch404" \in Ran(r) => path[r] \in UnmatchedPaths

\* A request for a defined path has failed and another has got its 200,
\* and a layer other than the catch-all answered each.
C19_Witness ==
  \E r1, r2 \in Requests :
    /\ path[r1] \in DefinedPaths /\ Quiescent(r1) /\ Len(handled[r1]) = 1
    /\ res[r1][1].status \in {400, 401, 500, 503}
    /\ path[r2] \in DefinedPaths /\ Quiescent(r2) /\ res[r2] = <<Ok200>>

\* A request for url handled with no other request in the server: from the
\* state s, its next layer runs, or else its error handler, or else the
\* next reaction of its promise chain; s is left as it is when none is due.
AloneStep(url, s) ==
  IF s.go > 0 /\ s.idx <= Len(Stack(url))
  THEN LET name == Stack(url)[s.idx]
           fx == HandleRequest(
                   IF name = "logger" THEN Logger
                   ELSE IF name = "catch404" THEN Catch404
                   ELSE RouteHandler(name, Request(url)))
       IN [idx |-> s.idx + 1,
           go |-> s.go - 1 + Continues(fx.next),
           promise |-> s.promise \o fx.promise,
           signals |-> s.signals \o Errors(fx.next),
           seen |-> s.seen,
           res |-> s.res \o fx.json]
  ELSE IF s.seen < Len(s.signals)
  THEN [s EXCEPT !.seen = @ + 1,
                 !.res = Append(@, ErrorResponse(s.signals[s.seen + 1]))]
  ELSE IF s.promise # <<>> /\ s.promise[1].reactions # <<>>
  THEN LET step == React(s.promise[1])
       IN [s EXCEPT !.promise = <<step.promise>>,
                    !.go = @ + Continues(step.fx.next),
                    !.signals = @ \o Errors(step.fx.next),
                    !.res = @ \o step.fx.json]
  ELSE s

\* The frames one request takes at most: the logger, two route handlers,
\* four promise reactions and the error handler.
AloneSteps == 8

\* The state of a request for url handled alone, after its last frame.
AloneRun(url) ==
  LET after[n \in 0..AloneSteps] ==
        IF n = 0
        THEN [idx |-> 1, go |-> 1, promise |-> <<>>, signals |-> <<>>,
              seen |-> 0, res |-> <<>>]
        ELSE AloneStep(url, after[n - 1])
  IN after[AloneSteps]

\* The responses of a request for url handled alone.
Alone(url) == AloneRun(url).res

\* The state of request r, with its pending promise chain.
Local(r) == <<Observable(r), promise[r]>>

\* C17: under any interleaving of the frames of several requests, each
\* request gets the status and body it gets when handled alone, and a
\* frame of one request leaves the state of the other requests as it is.
C17_InterleavingLeavesResponses ==
  /\ [](\A r \in Requests : Quiescent(r) => res[r] # <<>>)
  /\ [][/\ \A r \in Requests :
             res[r]' # res[r] => res[r]' = Alone(path[r])
        /\ Cardinality({r \in Requests : Local(r)' # Local(r)}) <= 1]_vars

\* Two requests are in flight at once: one has got its 200 from a promise
\* reaction and has a reaction left, the other is suspended on its promise.
C17_Witness ==
  \E r1, r2 \in Requests :
    /\ r1 # r2
    /\ path[r1] = "/error/nested-promise/return"
    /\ res[r1] = <<Ok200>> /\ promise[r1] # <<>>
    /\ path[r2] \in {"/error/promise", "/error/async-await"}
    /\ promise[r2] # <<>> /\ res[r2] = <<>>
    /\ Len(promise[r2][1].reactions) = 1

\* The error constructed while a request for url is handled.
Created(url) ==
  CASE url = "/error" -> GetError(Request(url)).throw[1]
    [] url = "/error/return" -> returnError.value
    [] url = "/error/throw" -> throwError.value
    [] url \in {"/error/promise", "/error/nested-promise/return",
                "/error/nested-promise/throw"} -> promiseReject.value
    [] url = "/error/expected" -> expectedError.value
    [] url = "/error/middleware" -> middlewareFn.next[1][1]
    [] url = "/error/async-await" -> asyncAwaitError.value
    [] url = "/error/callback" -> nodeCbError[1].err[1]
    [] url \in UnmatchedPaths -> Catch404.next[1][1]

\* C18: an error is not modified after it is constructed: the wrappers,
\* the routes' forwarding and the error handler pass it on as it was
\* made, the handler's response is read from those fields, and the handler
\* leaves the error unchanged.
C18_ErrorValueUnchanged ==
  /\ [](\A r \in Requests :
          /\ \A i \in DOMAIN thrown[r] : thrown[r][i] = signals[r][i]
          /\ \A i \in DOMAIN handled[r] :
               /\ handled[r][i].err = signals[r][i]
               /\ handled[r][i].res.body.error.message = signals[r][i].message
               /\ handled[r][i].res.body.error.name = signals[r][i].name
               /\ locals[r] = <<signals[r][Len(handled[r])]>>
          /\ promise[r] # <<>> =>
               /\ promise[r][1].state = "rejected" =>
                    promise[r][1].value = Created(path[r])
               /\ "message" \in DOMAIN promise[r][1].value =>
                    promise[r][1].value = Created(path[r]))
  /\ [][\A r \in Requests :
          /\ Len(signals[r]') >= Len(signals[r])
          /\ \A i \in DOMAIN signals[r]' :
               IF i \in DOMAIN signals[r] THEN signals[r]'[i] = signals[r][i]
               ELSE signals[r]'[i] = Created(path[r])
          /\ \A i \in DOMAIN handled[r] : handled[r]'[i] = handled[r][i]]_vars

\* The error of promiseReject has gone through the re-throwing wrapper and
\* the error handler, and through the returning wrapper.
C18_Witness ==
  \E r1, r2 \in Requests :
    /\ path[r1] = "/error/nested-promise/throw" /\ Quiescent(r1)
    /\ Len(handled[r1]) = 1 /\ handled[r1][1].err = promiseReject.value
    /\ locals[r1] = <<promiseReject.value>>
    /\ path[r2] = "/error/nested-promise/return"
    /\ promise[r2] # <<>> /\ promise[r2][1].state = "fulfilled"
    /\ promise[r2][1].value = promiseReject.value

====
